---- MODULE Spec2Model ----
(***************************************************************************)
(* Model of SyncAccessHandleVFS (src/examples/SyncAccessHandleVFS.js): a   *)
(* pool of OPFS files, each beginning with a header (path field + digest), *)
(* that backs the SQLite file namespace.                                   *)
(*                                                                         *)
(* Representation.                                                         *)
(*  - A JavaScript string is a sequence of code points.                    *)
(*  - A byte array whose length is fixed by the code (the 512-byte path    *)
(*    field) is the sequence of its bytes up to and including the last     *)
(*    non-zero byte; the bytes after it are zero (ByteAt).                 *)
(*  - A 32-bit word is the pair <<high 16 bits, low 16 bits>>.             *)
(*  - An OPFS file is named by a natural number, an access handle object   *)
(*    by <<file name, generation>>.                                        *)
(*  - Open flags are the set of the flag names that are set.               *)
(*  - A value that an action uses more than once is bound by \E over a     *)
(*    singleton set, a value that an operator uses more than once by Let.  *)
(***************************************************************************)
EXTENDS Integers, Sequences, FiniteSets, TLC

\* ------------------------------------------------------------------------
\* Header layout
\* ------------------------------------------------------------------------
HEADER_MAX_PATH_SIZE == 512
HEADER_DIGEST_SIZE == 8
HEADER_OFFSET_PATH == 0
HEADER_OFFSET_DIGEST == HEADER_MAX_PATH_SIZE
HEADER_OFFSET_DATA == HEADER_OFFSET_DIGEST + HEADER_DIGEST_SIZE

\* ------------------------------------------------------------------------
\* Bounds of the model
\* ------------------------------------------------------------------------
\* The largest number of OPFS files the directory holds.
MaxSlots == 2

\* ------------------------------------------------------------------------
\* Evaluation
\* ------------------------------------------------------------------------
\* F(v), with v evaluated once (TLC may evaluate the definitions of a LET
\* and the arguments of an operator every time they are used).
Let(v, F(_)) == CHOOSE r \in {F(x) : x \in {v}} : TRUE

\* ------------------------------------------------------------------------
\* 32-bit arithmetic on <<hi, lo>> pairs
\* ------------------------------------------------------------------------
W16 == 2 ^ 16

RECURSIVE Xor16(_, _)
Xor16(a, b) ==
  IF a = 0 THEN b
  ELSE IF b = 0 THEN a
  ELSE ((a + b) % 2) + 2 * Xor16(a \div 2, b \div 2)

Xor32(x, y) == <<Xor16(x[1], y[1]), Xor16(x[2], y[2])>>

\* x ^ value for a byte value
XorByte(x, v) == <<x[1], Xor16(x[2], v)>>

\* the low 16 bits of a * b, for 16-bit a and b
MulLow16(a, b) == (a * (b % 256) + ((a * (b \div 256)) % 256) * 256) % W16

\* Math.imul: the low 32 bits of the product
imulWords(x, y) ==
  LET p0 == x[2] * (y[2] % 256)
      p1 == x[2] * (y[2] \div 256)
      lo == p0 + (p1 % 256) * 256
      carry == (lo \div W16) + (p1 \div 256)
  IN  << (carry + MulLow16(x[2], y[1]) + MulLow16(x[1], y[2])) % W16,
         lo % W16 >>

imul(a, b) == Let(a, LAMBDA x : imulWords(x, b))

\* x >>> 16 and x >>> 13
Shr16(x) == <<0, x[1]>>
Shr13(x) == <<x[1] \div 8192, ((x[1] % 8192) * 8) + (x[2] \div 8192)>>

\* x ^ (x >>> 16) and x ^ (x >>> 13)
XorShr16(a) == Let(a, LAMBDA x : Xor32(x, Shr16(x)))
XorShr13(a) == Let(a, LAMBDA x : Xor32(x, Shr13(x)))

\* ------------------------------------------------------------------------
\* Byte arrays, UTF-8, URL paths
\* ------------------------------------------------------------------------
ByteAt(bytes, i) == IF i <= Len(bytes) THEN bytes[i] ELSE 0

\* The UTF-8 encoding of one code point (a Unicode scalar value).
Utf8(cp) ==
  IF cp < 128 THEN <<cp>>
  ELSE IF cp < 2048 THEN <<192 + (cp \div 64), 128 + (cp % 64)>>
  ELSE IF cp < 65536
    THEN <<224 + (cp \div 4096), 128 + ((cp \div 64) % 64), 128 + (cp % 64)>>
  ELSE <<240 + (cp \div 262144), 128 + ((cp \div 4096) % 64),
         128 + ((cp \div 64) % 64), 128 + (cp % 64)>>

\* TextEncoder.encodeInto(str, dest), one code point: it is written when it
\* fits as a whole, and the first one that does not fit ends the encoding.
EncodeStep(st, cp, size) ==
  IF st.stop THEN st
  ELSE IF Len(st.out) + Len(Utf8(cp)) > size THEN [st EXCEPT !.stop = TRUE]
  ELSE [st EXCEPT !.out = @ \o Utf8(cp)]

\* The code points lo..hi of str, in order (split in halves to keep the
\* evaluation shallow).
RECURSIVE EncodeLoop(_, _, _, _, _)
EncodeLoop(str, lo, hi, st, size) ==
  IF lo > hi THEN st
  ELSE IF lo = hi THEN EncodeStep(st, str[lo], size)
  ELSE Let(EncodeLoop(str, lo, (lo + hi) \div 2, st, size),
           LAMBDA left : EncodeLoop(str, ((lo + hi) \div 2) + 1, hi, left, size))

\* The bytes encodeInto writes into a zero-filled array of `size` bytes; their
\* number is encodedResult.written.
encodeIntoBytes(str, size) ==
  EncodeLoop(str, 1, Len(str), [out |-> <<>>, stop |-> FALSE], size).out

\* TextDecoder.decode, one byte (the WHATWG UTF-8 decoder): st.need bytes of
\* the code point st.cp are still missing, the next one must lie in
\* st.lower..st.upper. A byte that cannot continue the sequence yields U+FFFD
\* and is then decoded as the first byte of a new sequence.
DecodeFirst(out, b) ==
  LET start(n, cp, lo, up) ==
        [out |-> out, need |-> n, cp |-> cp, lower |-> lo, upper |-> up]
      emit(cp) ==
        [out |-> Append(out, cp), need |-> 0, cp |-> 0,
         lower |-> 128, upper |-> 191]
  IN  IF b < 128 THEN emit(b)
      ELSE IF b >= 194 /\ b <= 223 THEN start(1, b - 192, 128, 191)
      ELSE IF b >= 224 /\ b <= 239
        THEN start(2, b - 224, IF b = 224 THEN 160 ELSE 128,
                               IF b = 237 THEN 159 ELSE 191)
      ELSE IF b >= 240 /\ b <= 244
        THEN start(3, b - 240, IF b = 240 THEN 144 ELSE 128,
                               IF b = 244 THEN 143 ELSE 191)
      ELSE emit(65533)

DecodeStep(st, b) ==
  IF st.need = 0 THEN DecodeFirst(st.out, b)
  ELSE IF b < st.lower \/ b > st.upper
    THEN DecodeFirst(Append(st.out, 65533), b)
  ELSE IF st.need = 1
    THEN [out |-> Append(st.out, st.cp * 64 + (b - 128)),
          need |-> 0, cp |-> 0, lower |-> 128, upper |-> 191]
  ELSE [out |-> st.out, need |-> st.need - 1, cp |-> st.cp * 64 + (b - 128),
        lower |-> 128, upper |-> 191]

RECURSIVE DecodeLoop(_, _, _, _)
DecodeLoop(bytes, lo, hi, st) ==
  IF lo > hi THEN st
  ELSE IF lo = hi THEN DecodeStep(st, bytes[lo])
  ELSE Let(DecodeLoop(bytes, lo, (lo + hi) \div 2, st),
           LAMBDA left : DecodeLoop(bytes, ((lo + hi) \div 2) + 1, hi, left))

\* new TextDecoder().decode(bytes): an unfinished sequence at the end of the
\* input yields U+FFFD.
decodeBytes(bytes) ==
  Let(DecodeLoop(bytes, 1, Len(bytes),
        [out |-> <<>>, need |-> 0, cp |-> 0, lower |-> 128, upper |-> 191]),
      LAMBDA st : IF st.need = 0 THEN st.out ELSE Append(st.out, 65533))

HexDigit(d) == IF d < 10 THEN 48 + d ELSE 55 + d

\* %XX for each byte
PercentEncode(bytes) ==
  IF Len(bytes) = 0 THEN <<>>
  ELSE [i \in 1..(3 * Len(bytes)) |->
          LET b == bytes[((i - 1) \div 3) + 1]
          IN  IF i % 3 = 1 THEN 37
              ELSE IF i % 3 = 2 THEN HexDigit(b \div 16) ELSE HexDigit(b % 16)]

\* The characters lo..hi of a URL path: every non-ASCII character is
\* percent-encoded.
RECURSIVE UrlPathChars(_, _, _)
UrlPathChars(str, lo, hi) ==
  IF lo > hi THEN <<>>
  ELSE IF lo = hi
    THEN (IF str[lo] < 127 THEN <<str[lo]>> ELSE PercentEncode(Utf8(str[lo])))
  ELSE UrlPathChars(str, lo, (lo + hi) \div 2)
       \o UrlPathChars(str, ((lo + hi) \div 2) + 1, hi)

\* #getPath: the pathname of new URL(name, 'file://localhost/'), for a name
\* made of '/', letters, digits, '.' and non-ASCII characters (no '.' or '..'
\* segment, no '?', '#', '\' or '%'): the name is resolved against the root.
urlPathname(name) ==
  IF name # <<>> /\ name[1] = 47 THEN UrlPathChars(name, 1, Len(name))
  ELSE <<47>> \o UrlPathChars(name, 1, Len(name))

\* ------------------------------------------------------------------------
\* The digest of the path field
\* ------------------------------------------------------------------------
\* One iteration of the loop over the bytes of the corpus, on h = <<h1, h2>>.
DigestStep(h, value) ==
  << imul(XorByte(h[1], value), <<40503, 31153>>),
     imul(XorByte(h[2], value), <<24373, 25749>>) >>

\* The loop over the bytes lo..hi of the corpus (split in halves to keep the
\* evaluation shallow).
RECURSIVE DigestLoop(_, _, _, _)
DigestLoop(corpus, lo, hi, h) ==
  IF lo > hi THEN h
  ELSE IF lo = hi THEN DigestStep(h, ByteAt(corpus, lo))
  ELSE Let(DigestLoop(corpus, lo, (lo + hi) \div 2, h),
           LAMBDA left : DigestLoop(corpus, ((lo + hi) \div 2) + 1, hi, left))

\* The two words the loop leaves in h are mixed into the two words of the
\* digest.
DigestMix(h) ==
  Let(Xor32(imul(XorShr16(h[1]), <<34283, 51819>>),
            imul(XorShr13(h[2]), <<49842, 44597>>)),
      LAMBDA g1 :
        <<g1, Xor32(imul(XorShr16(h[2]), <<34283, 51819>>),
                    imul(XorShr13(g1), <<49842, 44597>>))>>)

cyrb53(corpus) ==
  Let(DigestLoop(corpus, 1, HEADER_MAX_PATH_SIZE,
                 << <<57005, 48879>>, <<16838, 52823>> >>),
      LAMBDA h : DigestMix(h))

\* ------------------------------------------------------------------------
\* Inputs of the model
\* ------------------------------------------------------------------------
\* "/aaa...a" of n characters
NameLong(n) == [i \in 1..n |-> IF i = 1 THEN 47 ELSE 97]

\* File names SQLite passes: "/a", "a", a path of 511 bytes (the longest the
\* path field takes) and one of 512 bytes.
Names ==
  { <<47, 97>>, <<97>>,
    NameLong(HEADER_MAX_PATH_SIZE - 1), NameLong(HEADER_MAX_PATH_SIZE) }

\* "/a" and "é"
IONames == { <<47, 97>>, <<233>> }

\* xOpen is also called with no name (a temporary file).
NoName == <<>>

AllNames == Names \cup IONames \cup {NoName}

\* Math.random().toString(36), taken to differ from every path in use: "0.x"
RandomStrings == { <<48, 46, 120>> }

\* n - 1 characters "/aaa...a" followed by the character cp
NameEnding(n, cp) == [i \in 1..n |-> IF i = 1 THEN 47 ELSE IF i = n THEN cp ELSE 97]

\* Paths #setAssociatedPath can be called with: "", "/a", "é", the paths of
\* 511 and 512 bytes, paths that end in "é" (2 bytes) with encodings of 511,
\* 512 and 513 bytes, and one that ends in "€" (3 bytes) with an encoding of
\* 513 bytes.
HeaderPaths ==
  { <<>>, <<47, 97>>, <<233>>,
    NameLong(HEADER_MAX_PATH_SIZE - 1), NameLong(HEADER_MAX_PATH_SIZE),
    NameEnding(HEADER_MAX_PATH_SIZE - 2, 233),
    NameEnding(HEADER_MAX_PATH_SIZE - 1, 233),
    NameEnding(HEADER_MAX_PATH_SIZE, 233),
    NameEnding(HEADER_MAX_PATH_SIZE - 1, 8364) }

FileIds == {1}

\* The flags of VFS.js that the code tests.
FlagSets == { {}, {"CREATE"}, {"CREATE", "DELETEONCLOSE"} }

\* ------------------------------------------------------------------------
\* The conversions, with their values on the inputs of the model computed
\* once
\* ------------------------------------------------------------------------
PathnameTable == [name \in AllNames |-> urlPathname(name)]

\* #getPath(nameOrURL)
getPath(name) ==
  IF name \in DOMAIN PathnameTable THEN PathnameTable[name] ELSE urlPathname(name)

\* The strings #setAssociatedPath is called with.
Paths ==
  {PathnameTable[name] : name \in AllNames} \cup RandomStrings \cup HeaderPaths

EncodeTable == [path \in Paths |-> encodeIntoBytes(path, HEADER_MAX_PATH_SIZE)]

\* new TextEncoder().encodeInto(str, new Uint8Array(size)): the bytes written.
EncodeInto(str, size) ==
  IF size = HEADER_MAX_PATH_SIZE /\ str \in DOMAIN EncodeTable
    THEN EncodeTable[str]
  ELSE encodeIntoBytes(str, size)

Max(a, b) == IF a >= b THEN a ELSE b

\* A byte array without the zero bytes at its end.
RECURSIVE TrimZeros(_)
TrimZeros(bytes) ==
  IF bytes = <<>> \/ bytes[Len(bytes)] # 0 THEN bytes
  ELSE TrimZeros(SubSeq(bytes, 1, Len(bytes) - 1))

\* The path field `old` after the first k bytes of a write of the path field
\* `new` over it.
Torn(old, new, k) ==
  TrimZeros([i \in 1..Max(Len(old), Len(new)) |->
               IF i <= k THEN ByteAt(new, i) ELSE ByteAt(old, i)])

\* The path fields of the paths of IONames, and the empty one.
IOFields == {EncodeTable[PathnameTable[name]] : name \in IONames} \cup {<<>>}

\* The path fields a write that stopped part way can leave.
TornFields ==
  UNION {{Torn(old, new, k) : k \in 0..Max(Len(old), Len(new))} :
           old \in IOFields, new \in IOFields}

\* The path fields #setAssociatedPath writes, whole or in part.
PathFields == {EncodeTable[path] : path \in Paths} \cup TornFields

DecodeTable == [bytes \in PathFields |-> decodeBytes(bytes)]

\* new TextDecoder().decode(bytes)
Utf8Decode(bytes) ==
  IF bytes \in DOMAIN DecodeTable THEN DecodeTable[bytes] ELSE decodeBytes(bytes)

DigestTable == [corpus \in PathFields |-> cyrb53(corpus)]

\* #computeDigest(corpus): the two 32-bit words of the digest.
computeDigest(corpus) ==
  IF corpus \in DOMAIN DigestTable THEN DigestTable[corpus] ELSE cyrb53(corpus)

\* ------------------------------------------------------------------------
\* State
\* ------------------------------------------------------------------------
VARIABLES
  files,                  \* the OPFS directory: file name -> [path, digest, size]
  openHandles,            \* the access handle objects that are not closed
  directoryHandle,        \* #directoryHandle is set
  mapAccessHandleToName,  \* sequence of <<access handle, file name>> (a Map)
  mapPathToAccessHandle,  \* path -> access handle
  mapIdToFile,            \* file id -> [path, flags, accessHandle]
  last,                   \* the last call: what it returned and acted on
  suspended               \* the async call that is suspended at an await

vars ==
  <<files, openHandles, directoryHandle, mapAccessHandleToName,
    mapPathToAccessHandle, mapIdToFile, last, suspended>>

pool == <<files, openHandles, directoryHandle, mapAccessHandleToName,
          mapPathToAccessHandle>>

\* No access handle.
NoSlot == <<0, 0>>

\* No async call is suspended: every call has been awaited.
NotSuspended == [op |-> "none"]

\* The record of a call: its name, what it returned ("throws" when it threw
\* or rejected, "pending" while it is suspended at an await), the access
\* handle it bound, freed or closed, and a note. The note of reset is whether it
\* rewrote a header. The note of xOpen is the message it
\* passed to console.error, or else whether it found the path, created it, or
\* created it in the slot that the call before had freed; the note of a call
\* that frees a slot is whether the file held payload.
Call(op, rc, slot, note) ==
  [op |-> op, rc |-> rc, value |-> 0, slot |-> slot, note |-> note]

\* The record of a call that returned the number n.
Returned(op, n, note) ==
  [op |-> op, rc |-> "number", value |-> n, slot |-> NoSlot, note |-> note]

\* Map operations on a sequence of <<key, value>> pairs (insertion order).
MapKeys(m) == [i \in 1..Len(m) |-> m[i][1]]
MapHas(m, k) == \E i \in 1..Len(m) : m[i][1] = k
MapGet(m, k) == m[CHOOSE i \in 1..Len(m) : m[i][1] = k][2]
MapDelete(m, k) == SelectSeq(m, LAMBDA e : e[1] # k)

\* A function without the key k.
Without(f, k) == [x \in (DOMAIN f) \ {k} |-> f[x]]

\* getSize() and getCapacity()
getSize == Cardinality(DOMAIN mapPathToAccessHandle)
getCapacity == Len(mapAccessHandleToName)

\* The access handle objects some variable still refers to.
ReferencedHandles ==
  {mapAccessHandleToName[i][1] : i \in 1..Len(mapAccessHandleToName)}
  \cup {mapPathToAccessHandle[p] : p \in DOMAIN mapPathToAccessHandle}
  \cup {mapIdToFile[id].accessHandle : id \in DOMAIN mapIdToFile}

\* createSyncAccessHandle() returns a new object: <<name, g>> for the least g
\* that names no object in `used`.
NewAccessHandle(name, used) ==
  <<name, CHOOSE g \in 0..Cardinality(used) :
            /\ <<name, g>> \notin used
            /\ \A k \in 0..(g - 1) : <<name, k>> \in used>>

\* Math.random() names a file that is not in the directory: the least such.
NewFileName(fs) ==
  CHOOSE n \in 1..(Cardinality(DOMAIN fs) + 1) :
    /\ n \notin DOMAIN fs
    /\ \A k \in 1..(n - 1) : k \in DOMAIN fs

\* ------------------------------------------------------------------------
\* Header access
\* ------------------------------------------------------------------------
\* encodedResult.written > encodedPath.byteLength
PathLongerThanField(encodedPath) == Len(encodedPath) > HEADER_MAX_PATH_SIZE

\* encodedResult.written >= encodedPath.byteLength
PathTooLong(encodedPath) == Len(encodedPath) >= HEADER_MAX_PATH_SIZE

\* HeaderWritten without accessHandle.truncate(HEADER_OFFSET_DATA)
HeaderWrittenKeepsPayload(fs, name, path, encodedPath) ==
  [fs EXCEPT ![name] =
     [path |-> encodedPath, digest |-> computeDigest(encodedPath),
      size |-> Max(@.size, HEADER_OFFSET_DATA)]]

\* The directory after #setAssociatedPath has written the header of the file
\* `name`, and truncated the file when the path is empty.
HeaderWritten(fs, name, path, encodedPath) ==
  LET digest == computeDigest(encodedPath)
      written == [fs EXCEPT ![name] =
                    [path |-> encodedPath, digest |-> digest,
                     size |-> Max(@.size, HEADER_OFFSET_DATA)]]
  IN  IF path = <<>>
        THEN [written EXCEPT ![name].size = HEADER_OFFSET_DATA]
      ELSE written

\* Reordered without the move to the front: a slot that is freed stays in
\* its place.
ReorderedStaysWhenFreed(map, accessHandle, path) ==
  IF ~MapHas(map, accessHandle) \/ path = <<>> THEN map
  ELSE Append(MapDelete(map, accessHandle),
              <<accessHandle, MapGet(map, accessHandle)>>)

\* Reordered without the move to the end: a slot that is bound stays in its
\* place.
ReorderedStaysWhenBound(map, accessHandle, path) ==
  IF ~MapHas(map, accessHandle) THEN map
  ELSE IF path = <<>>
    THEN <<<<accessHandle, MapGet(map, accessHandle)>>>>
         \o MapDelete(map, accessHandle)
  ELSE map

\* The Map after #setAssociatedPath: an access handle that is a key moves to
\* the front when the path is empty, and to the end when it is not.
Reordered(map, accessHandle, path) ==
  IF ~MapHas(map, accessHandle) THEN map
  ELSE IF path = <<>>
    THEN <<<<accessHandle, MapGet(map, accessHandle)>>>>
         \o MapDelete(map, accessHandle)
  ELSE Append(MapDelete(map, accessHandle),
              <<accessHandle, MapGet(map, accessHandle)>>)

\* #setAssociatedPath(accessHandle, path) on the directory fs and the Map
\* map: the exception thrown ("" when none), the directory and the Map after.
\* A write to a closed access handle throws InvalidStateError.
setAssociatedPath(fs, map, open, accessHandle, path) ==
  LET encodedPath == EncodeInto(path, HEADER_MAX_PATH_SIZE)
  IN  IF PathTooLong(encodedPath)
        THEN [threw |-> "path too long", files |-> fs, map |-> map]
      ELSE IF accessHandle \notin open
        THEN [threw |-> "InvalidStateError", files |-> fs, map |-> map]
      ELSE [threw |-> "", map |-> Reordered(map, accessHandle, path),
            files |-> HeaderWritten(fs, accessHandle[1], path, encodedPath)]

\* encodedPath.findIndex(value => value === 0) on the 512-byte array
FindZero(bytes) ==
  IF \E i \in 1..Len(bytes) : bytes[i] = 0
    THEN (CHOOSE i \in 1..Len(bytes) :
            bytes[i] = 0 /\ \A k \in 1..(i - 1) : bytes[k] # 0) - 1
  ELSE IF Len(bytes) < HEADER_MAX_PATH_SIZE THEN Len(bytes)
  ELSE -1

\* encodedPath.subarray(0, end)
Subarray0(bytes, end) ==
  SubSeq(bytes, 1, IF end < 0 THEN HEADER_MAX_PATH_SIZE + end ELSE end)

\* No verification of the digest.
GoodDigestUnverified(fileDigest, computedDigest) == TRUE

\* value === computedDigest[i] for the first word only
GoodDigestFirstWord(fileDigest, computedDigest) ==
  fileDigest[1] = computedDigest[1]

\* fileDigest.every((value, i) => value === computedDigest[i])
GoodDigest(fileDigest, computedDigest) == fileDigest = computedDigest

\* #getAssociatedPath(accessHandle): the path read, the exception thrown, and
\* the directory and the Map after (a header with a bad digest is rewritten).
getAssociatedPath(fs, map, open, accessHandle) ==
  LET name == accessHandle[1]
      encodedPath == fs[name].path
      fileDigest == fs[name].digest
      computedDigest == computeDigest(encodedPath)
      repair == setAssociatedPath(fs, map, open, accessHandle, <<>>)
  IN  IF accessHandle \notin open
        THEN [path |-> <<>>, threw |-> "InvalidStateError",
              files |-> fs, map |-> map]
      ELSE IF GoodDigest(fileDigest, computedDigest)
        THEN [path |-> Utf8Decode(Subarray0(encodedPath, FindZero(encodedPath))),
              threw |-> "", files |-> fs, map |-> map]
      ELSE [path |-> <<>>, threw |-> repair.threw,
            files |-> repair.files, map |-> repair.map]

\* deletePath without this.#mapPathToAccessHandle.delete(path)
deletePathKeepsPath(fs, map, paths, open, path) ==
  IF path \in DOMAIN paths
    THEN LET set == setAssociatedPath(fs, map, open, paths[path], <<>>)
         IN  IF set.threw # ""
               THEN [threw |-> set.threw, slot |-> NoSlot, files |-> fs,
                     map |-> map, paths |-> paths]
             ELSE [threw |-> "", slot |-> paths[path], files |-> set.files,
                   map |-> set.map, paths |-> paths]
  ELSE [threw |-> "", slot |-> NoSlot, files |-> fs, map |-> map,
        paths |-> paths]

\* #deletePath(path): the exception thrown, the access handle it freed and
\* the state after.
deletePath(fs, map, paths, open, path) ==
  IF path \in DOMAIN paths
    THEN LET set == setAssociatedPath(fs, map, open, paths[path], <<>>)
         IN  IF set.threw # ""
               THEN [threw |-> set.threw, slot |-> NoSlot, files |-> fs,
                     map |-> map, paths |-> paths]
             ELSE [threw |-> "", slot |-> paths[path], files |-> set.files,
                   map |-> set.map, paths |-> Without(paths, path)]
  ELSE [threw |-> "", slot |-> NoSlot, files |-> fs, map |-> map,
        paths |-> paths]

\* ------------------------------------------------------------------------
\* The VFS methods SQLite calls
\* ------------------------------------------------------------------------
Init ==
  /\ files = <<>>
  /\ openHandles = {}
  /\ directoryHandle = FALSE
  /\ mapAccessHandleToName = <<>>
  /\ mapPathToAccessHandle = <<>>
  /\ mapIdToFile = <<>>
  /\ last = Call("constructor", "none", NoSlot, "")
  /\ suspended = NotSuspended

\* this.getSize() < this.getCapacity()
HasRoom == getSize < getCapacity

\* The last key of the Map instead of the first.
LastKey(map) == map[Len(map)][1]

\* [accessHandle] = this.#mapAccessHandleToName.keys()
FirstKey(map) == map[1][1]

\* The path xOpen uses for a name.
OpenPaths(name) ==
  IF name # NoName THEN {getPath(name)}
  ELSE RandomStrings \ DOMAIN mapPathToAccessHandle

\* xOpen(name, fileId, flags), for a file id that is not open.
xOpen(name, fileId, flags) ==
  /\ fileId \notin DOMAIN mapIdToFile
  /\ \E path \in OpenPaths(name) :
       LET found == path \in DOMAIN mapPathToAccessHandle
           create == ~found /\ "CREATE" \in flags
       IN  IF (create /\ ~HasRoom) \/ (~create /\ ~found)
             THEN /\ last' = Call("xOpen", "SQLITE_CANTOPEN", NoSlot,
                                  IF create THEN "cannot create file"
                                  ELSE "file not found")
                  /\ UNCHANGED <<pool, mapIdToFile>>
           ELSE \E accessHandle \in {IF found THEN mapPathToAccessHandle[path]
                                     ELSE FirstKey(mapAccessHandleToName)} :
                \E set \in {IF create
                              THEN setAssociatedPath(files, mapAccessHandleToName,
                                     openHandles, accessHandle, path)
                            ELSE [threw |-> "", files |-> files,
                                  map |-> mapAccessHandleToName]} :
                  IF set.threw # ""
                    THEN /\ last' = Call("xOpen", "SQLITE_CANTOPEN", NoSlot,
                                         set.threw)
                         /\ UNCHANGED <<pool, mapIdToFile>>
                  ELSE /\ files' = set.files
                       /\ mapAccessHandleToName' = set.map
                       /\ mapPathToAccessHandle' =
                            (path :> accessHandle) @@ mapPathToAccessHandle
                       /\ mapIdToFile' =
                            (fileId :> [path |-> path, flags |-> flags,
                                        accessHandle |-> accessHandle])
                            @@ mapIdToFile
                       /\ last' = Call("xOpen", "SQLITE_OK", accessHandle,
                                       IF ~create THEN "found"
                                       ELSE IF last.slot = accessHandle
                                         THEN "reused"
                                       ELSE "created")
                       /\ UNCHANGED <<openHandles, directoryHandle>>

\* flags & VFS.SQLITE_OPEN_CREATE, the flag xOpen tests
DeleteOnCloseTestsCreate(flags) == "CREATE" \in flags

\* flags & VFS.SQLITE_OPEN_DELETEONCLOSE
DeleteOnClose(flags) == "DELETEONCLOSE" \in flags

\* The payload the file of an access handle holds, in bytes.
Payload(fs, accessHandle) ==
  IF accessHandle[1] \in DOMAIN fs
    THEN Max(fs[accessHandle[1]].size - HEADER_OFFSET_DATA, 0)
  ELSE 0

\* The note of a call that frees a slot: whether its file held payload.
FreedNote(slot) ==
  IF slot # NoSlot /\ Payload(files, slot) > 0 THEN "payload" ELSE ""

\* xClose(fileId)
xClose(fileId) ==
  IF fileId \in DOMAIN mapIdToFile
    THEN LET file == mapIdToFile[fileId]
         IN  /\ mapIdToFile' = Without(mapIdToFile, fileId)
             /\ IF DeleteOnClose(file.flags)
                  THEN \E del \in {deletePath(files, mapAccessHandleToName,
                                     mapPathToAccessHandle, openHandles, file.path)} :
                       /\ files' = del.files
                       /\ mapAccessHandleToName' = del.map
                       /\ mapPathToAccessHandle' = del.paths
                       /\ last' = Call("xClose",
                                       IF del.threw = "" THEN "SQLITE_OK"
                                       ELSE "throws", del.slot,
                                       FreedNote(del.slot))
                  ELSE /\ UNCHANGED <<files, mapAccessHandleToName,
                                      mapPathToAccessHandle>>
                       /\ last' = Call("xClose", "SQLITE_OK", NoSlot, "")
             /\ UNCHANGED <<openHandles, directoryHandle>>
  ELSE /\ last' = Call("xClose", "SQLITE_OK", NoSlot, "")
       /\ UNCHANGED <<pool, mapIdToFile>>

\* xDelete(name, syncDir)
xDelete(name) ==
  \E del \in {deletePath(files, mapAccessHandleToName, mapPathToAccessHandle,
                          openHandles, getPath(name))} :
      /\ files' = del.files
      /\ mapAccessHandleToName' = del.map
      /\ mapPathToAccessHandle' = del.paths
      /\ last' = Call("xDelete",
                      IF del.threw = "" THEN "SQLITE_OK" ELSE "throws",
                      del.slot, FreedNote(del.slot))
      /\ UNCHANGED <<openHandles, directoryHandle, mapIdToFile>>

\* What xAccess(name, flags, pResOut) stores in pResOut.
xAccessResOut(name) ==
  IF getPath(name) \in DOMAIN mapPathToAccessHandle THEN 1 ELSE 0

\* xWrite(fileId, pData, iOffset) for pData of nBytes bytes, on an open file id.
xWrite(fileId, nBytes, iOffset) ==
  /\ fileId \in DOMAIN mapIdToFile
  /\ LET accessHandle == mapIdToFile[fileId].accessHandle
     IN  IF accessHandle \in openHandles
           THEN /\ files' = [files EXCEPT ![accessHandle[1]].size =
                               Max(@, HEADER_OFFSET_DATA + iOffset + nBytes)]
                /\ last' = Call("xWrite", "SQLITE_OK", NoSlot, "")
         ELSE /\ last' = Call("xWrite", "throws", NoSlot, "")
              /\ UNCHANGED files
  /\ UNCHANGED <<openHandles, directoryHandle, mapAccessHandleToName,
                 mapPathToAccessHandle, mapIdToFile>>

\* xTruncate(fileId, iSize), on an open file id.
xTruncate(fileId, iSize) ==
  /\ fileId \in DOMAIN mapIdToFile
  /\ LET accessHandle == mapIdToFile[fileId].accessHandle
     IN  IF accessHandle \in openHandles
           THEN /\ files' = [files EXCEPT ![accessHandle[1]].size =
                               HEADER_OFFSET_DATA + iSize]
                /\ last' = Call("xTruncate", "SQLITE_OK", NoSlot, "")
         ELSE /\ last' = Call("xTruncate", "throws", NoSlot, "")
              /\ UNCHANGED files
  /\ UNCHANGED <<openHandles, directoryHandle, mapAccessHandleToName,
                 mapPathToAccessHandle, mapIdToFile>>

\* ------------------------------------------------------------------------
\* Capacity changes and reset, each run to completion
\* ------------------------------------------------------------------------
HandlesOf(entries) == {entries[i][1] : i \in 1..Len(entries)}

\* A file that getFileHandle(name, { create: true }) has just created.
EmptyFile == [path |-> <<>>, digest |-> << <<0, 0>>, <<0, 0>> >>, size |-> 0]

\* The loop of addCapacity from iteration i on.
RECURSIVE addCapacityLoop(_, _, _)
addCapacityLoop(i, n, st) ==
  IF i >= n THEN st
  ELSE LET name == NewFileName(st.files)
           accessHandle ==
             NewAccessHandle(name, ReferencedHandles \cup HandlesOf(st.newEntries))
           set == setAssociatedPath((name :> EmptyFile) @@ st.files, st.map,
                                    st.open \cup {accessHandle}, accessHandle, <<>>)
       IN  Let([files |-> set.files, map |-> set.map,
                open |-> st.open \cup {accessHandle},
                newEntries |-> Append(st.newEntries, <<accessHandle, name>>)],
               LAMBDA next : addCapacityLoop(i + 1, n, next))

\* new Map([...this.#mapAccessHandleToName, ...newEntries])
AppendNewEntries(newEntries, map) == map \o newEntries

\* new Map([...newEntries, ...this.#mapAccessHandleToName])
InsertNewEntries(newEntries, map) == newEntries \o map

\* addCapacity(n), awaited. Without a directory handle the first
\* getFileHandle throws a TypeError.
addCapacity(n) ==
  IF n > 0 /\ ~directoryHandle
    THEN /\ last' = Call("addCapacity", "throws", NoSlot, "")
         /\ UNCHANGED <<pool, mapIdToFile>>
  ELSE \E st \in {addCapacityLoop(0, n,
                   [files |-> files, map |-> mapAccessHandleToName,
                    open |-> openHandles, newEntries |-> <<>>])} :
           /\ files' = st.files
           /\ openHandles' = st.open
           /\ mapAccessHandleToName' = InsertNewEntries(st.newEntries, st.map)
           /\ last' = Returned("addCapacity", n, "")
           /\ UNCHANGED <<directoryHandle, mapPathToAccessHandle, mapIdToFile>>

\* nRemoved == n
removeCapacityDoneByCount(nRemoved, n, capacity) == nRemoved = n

\* nRemoved == n || this.getSize() === this.getCapacity()
removeCapacityDone(nRemoved, n, capacity) == nRemoved = n \/ getSize = capacity

\* The loop of removeCapacity over the entries the iterator has still to
\* visit; st.returns is whether the loop ends at `return nRemoved`.
RECURSIVE removeCapacityLoop(_, _, _)
removeCapacityLoop(entries, n, st) ==
  IF entries = <<>> THEN [st EXCEPT !.returns = FALSE]
  ELSE IF removeCapacityDone(st.nRemoved, n, Len(st.map))
    THEN [st EXCEPT !.returns = TRUE]
  ELSE LET accessHandle == entries[1][1]
           name == entries[1][2]
       IN  Let([st EXCEPT !.open = @ \ {accessHandle},
                           !.files = Without(@, name),
                           !.map = MapDelete(@, accessHandle),
                           !.nRemoved = @ + 1],
               LAMBDA next : removeCapacityLoop(Tail(entries), n, next))

\* removeCapacity(n), awaited.
removeCapacity(n) ==
  \E st \in {removeCapacityLoop(mapAccessHandleToName, n,
              [files |-> files, map |-> mapAccessHandleToName,
               open |-> openHandles, nRemoved |-> 0, returns |-> FALSE])} :
      /\ files' = st.files
      /\ openHandles' = st.open
      /\ mapAccessHandleToName' = st.map
      /\ last' = (IF st.returns
                    THEN Returned("removeCapacity", st.nRemoved, "")
                  ELSE Call("removeCapacity", "undefined", NoSlot, ""))
      /\ UNCHANGED <<directoryHandle, mapPathToAccessHandle, mapIdToFile>>

\* The orders in which the directory can enumerate its files.
Enumerations(fs) ==
  {order \in [1..Cardinality(DOMAIN fs) -> DOMAIN fs] :
     \A i, j \in DOMAIN order : order[i] = order[j] => i = j}

\* The loop of #acquireAccessHandles over the files from order[i] on.
RECURSIVE acquireAccessHandlesLoop(_, _, _)
acquireAccessHandlesLoop(order, i, st) ==
  IF i > Len(order) \/ st.threw # "" THEN st
  ELSE LET name == order[i]
           used == {mapIdToFile[id].accessHandle : id \in DOMAIN mapIdToFile}
                   \cup HandlesOf(st.tuplesWithPath)
                   \cup HandlesOf(st.tuplesWithoutPath)
           accessHandle == NewAccessHandle(name, used)
           open == st.open \cup {accessHandle}
           after(got) ==
             IF got.path # <<>>
               THEN [st EXCEPT
                       !.files = got.files, !.open = open,
                       !.paths = (got.path :> accessHandle) @@ @,
                       !.tuplesWithPath = Append(@, <<accessHandle, name>>)]
             ELSE [st EXCEPT
                     !.files = got.files, !.open = open,
                     !.tuplesWithoutPath = Append(@, <<accessHandle, name>>)]
       IN  IF \E h \in st.open : h[1] = name
             THEN [st EXCEPT !.threw = "NoModificationAllowedError"]
           ELSE Let(after(getAssociatedPath(st.files, <<>>, open, accessHandle)),
                    LAMBDA next : acquireAccessHandlesLoop(order, i + 1, next))

\* new Map([...tuplesWithPath, ...tuplesWithoutPath])
AcquiredWithPathFirst(tuplesWithoutPath, tuplesWithPath) ==
  tuplesWithPath \o tuplesWithoutPath

\* new Map([...tuplesWithoutPath, ...tuplesWithPath])
Acquired(tuplesWithoutPath, tuplesWithPath) ==
  tuplesWithoutPath \o tuplesWithPath

\* reset(), awaited: #releaseAccessHandles, then #acquireAccessHandles over
\* the directory in the order it enumerates its files.
reset ==
  \E order \in Enumerations(files) :
    \E st \in {acquireAccessHandlesLoop(order, 1,
                [files |-> files,
                 open |-> openHandles \ HandlesOf(mapAccessHandleToName),
                 paths |-> <<>>, tuplesWithPath |-> <<>>,
                 tuplesWithoutPath |-> <<>>, threw |-> ""])} :
        /\ directoryHandle' = TRUE
        /\ files' = st.files
        /\ openHandles' = st.open
        /\ mapPathToAccessHandle' = st.paths
        /\ mapAccessHandleToName' =
             (IF st.threw = ""
                THEN Acquired(st.tuplesWithoutPath, st.tuplesWithPath)
              ELSE <<>>)
        /\ last' = Call("reset", IF st.threw = "" THEN "undefined" ELSE "throws",
                        NoSlot, IF st.files # files THEN "repaired" ELSE "")
        /\ UNCHANGED mapIdToFile

\* ------------------------------------------------------------------------
\* Spec: xOpen, xClose, xDelete, addCapacity, removeCapacity and reset, every
\* call run to completion before the next
\* ------------------------------------------------------------------------
Open == \E name \in Names \cup {NoName}, fileId \in FileIds, flags \in FlagSets :
          xOpen(name, fileId, flags) /\ UNCHANGED suspended
Close == \E fileId \in FileIds : xClose(fileId) /\ UNCHANGED suspended
Delete == \E name \in Names : xDelete(name) /\ UNCHANGED suspended
\* The directory holds at most MaxSlots files.
AddCapacity ==
  \E n \in 0..MaxSlots :
    /\ Cardinality(DOMAIN files) + n <= MaxSlots
    /\ addCapacity(n)
    /\ UNCHANGED suspended
RemoveCapacity == \E n \in 0..MaxSlots : removeCapacity(n) /\ UNCHANGED suspended
Reset == reset /\ UNCHANGED suspended

Next ==
  \/ Open
  \/ Close
  \/ Delete
  \/ AddCapacity
  \/ RemoveCapacity
  \/ Reset

Spec == Init /\ [][Next]_vars

\* ------------------------------------------------------------------------
\* SpecIO: the calls of a session after its reset, on the names "/a" and "é",
\* with the calls that change the payload of an open file
\* ------------------------------------------------------------------------
OpenIO == \E name \in IONames, fileId \in FileIds, flags \in FlagSets :
            xOpen(name, fileId, flags) /\ UNCHANGED suspended
DeleteIO == \E name \in IONames : xDelete(name) /\ UNCHANGED suspended
WriteIO == \E fileId \in FileIds : xWrite(fileId, 1, 0) /\ UNCHANGED suspended
TruncateIO == \E fileId \in FileIds : xTruncate(fileId, 0) /\ UNCHANGED suspended

NextIO ==
  \/ OpenIO
  \/ Close
  \/ DeleteIO
  \/ WriteIO
  \/ TruncateIO
  \/ AddCapacity
  \/ RemoveCapacity

\* The state after new SyncAccessHandleVFS(...) and an awaited reset() on an
\* empty directory.
InitIO ==
  /\ files = <<>>
  /\ openHandles = {}
  /\ directoryHandle = TRUE
  /\ mapAccessHandleToName = <<>>
  /\ mapPathToAccessHandle = <<>>
  /\ mapIdToFile = <<>>
  /\ last = Call("reset", "undefined", NoSlot, "")
  /\ suspended = NotSuspended

SpecIO == InitIO /\ [][NextIO]_vars

\* ------------------------------------------------------------------------
\* The pool as the properties describe it
\* ------------------------------------------------------------------------
\* The slots of the pool are the keys of #mapAccessHandleToName.
SlotAt(i) == mapAccessHandleToName[i][1]
FileAt(i) == mapAccessHandleToName[i][2]

\* A slot is bound when some path maps to it, and free when none does.
IsBound(slot) ==
  \E p \in DOMAIN mapPathToAccessHandle : mapPathToAccessHandle[p] = slot

\* The path in the header of a file: its path field up to the first zero
\* byte, decoded.
HeaderPath(fs, name) ==
  Utf8Decode(Subarray0(fs[name].path, FindZero(fs[name].path)))

\* The digest in the header of a file is the digest of its path field.
DigestMatches(fs, name) == fs[name].digest = computeDigest(fs[name].path)

\* The UTF-8 encoding of a path is shorter than the path field, which leaves
\* room for a terminating zero byte.
Fits(path) == Len(EncodeInto(path, HEADER_MAX_PATH_SIZE)) < HEADER_MAX_PATH_SIZE

\* The names xOpen is called with under Spec.
OpenNames == Names \cup {NoName}

\* The files of the slots other than the first are as they were.
OtherFilesUnchanged(name) ==
  /\ DOMAIN files' = DOMAIN files
  /\ \A other \in (DOMAIN files) \ {name} : files'[other] = files[other]

\* The directory without the files of the first k slots.
WithoutFirstFiles(k) ==
  [name \in (DOMAIN files) \ {FileAt(i) : i \in 1..k} |-> files[name]]

\* What xDelete of a bound path does, as C5 states it: the binding of the
\* path is removed and no other, the header of the slot holds the empty path
\* with its digest, the file has the size of the header, the slot is first in
\* the order and the other slots keep theirs, getSize() has dropped by 1 and
\* getCapacity() is the same; no other file and no access handle changes.
Freed(path) ==
  LET slot == mapPathToAccessHandle[path]
      name == MapGet(mapAccessHandleToName, slot)
  IN  /\ mapPathToAccessHandle' = Without(mapPathToAccessHandle, path)
      /\ HeaderPath(files', name) = <<>>
      /\ DigestMatches(files', name)
      /\ files'[name].size = HEADER_OFFSET_DATA
      /\ OtherFilesUnchanged(name)
      /\ mapAccessHandleToName' =
           <<<<slot, name>>>> \o MapDelete(mapAccessHandleToName, slot)
      /\ getSize' = getSize - 1
      /\ getCapacity' = getCapacity
      /\ UNCHANGED <<openHandles, directoryHandle>>

Min(a, b) == IF a <= b THEN a ELSE b

\* ------------------------------------------------------------------------
\* Properties. A property of the steps of one call names the call in last'
\* before the action of the call, which sets it.
\* ------------------------------------------------------------------------
\* C1: after any sequence of completed xOpen, xClose, xDelete, addCapacity,
\* removeCapacity and reset calls, no two paths are bound to the same slot,
\* every path is bound to a slot of the pool, a slot is the value of the
\* mapping for a path p exactly when the path of its header is the non-empty
\* path p, and every other slot has an empty header path.
C1_BindingsAgreeWithHeaders ==
  /\ \A p, q \in DOMAIN mapPathToAccessHandle :
       mapPathToAccessHandle[p] = mapPathToAccessHandle[q] => p = q
  /\ \A p \in DOMAIN mapPathToAccessHandle :
       MapHas(mapAccessHandleToName, mapPathToAccessHandle[p])
  /\ \A i \in 1..getCapacity :
       /\ FileAt(i) \in DOMAIN files
       /\ \A p \in DOMAIN mapPathToAccessHandle \cup {HeaderPath(files, FileAt(i))} :
            (p \in DOMAIN mapPathToAccessHandle
               /\ mapPathToAccessHandle[p] = SlotAt(i))
            <=> (p # <<>> /\ HeaderPath(files, FileAt(i)) = p)
       /\ ~IsBound(SlotAt(i)) => HeaderPath(files, FileAt(i)) = <<>>

\* C1 witness: a reset has rebuilt a pool of one bound and one free slot.
C1_Witness ==
  last.op = "reset" /\ last.rc = "undefined" /\ getSize = 1 /\ getCapacity = 2

\* C2: in every state reached by completed calls every free slot comes
\* before every bound slot in the order of #mapAccessHandleToName, and the
\* first slot is free whenever getSize() < getCapacity().
C2_FreeBeforeBound ==
  /\ \A i, j \in 1..getCapacity :
       (i < j /\ IsBound(SlotAt(i))) => IsBound(SlotAt(j))
  /\ getSize < getCapacity => ~IsBound(SlotAt(1))

\* C2 witness: an xDelete has freed one of two bound slots.
C2_Witness ==
  /\ last.op = "xDelete" /\ last.slot # NoSlot
  /\ getSize = 1 /\ getCapacity = 2

\* What C3 says of an xOpen that creates the path: it succeeds, the first slot
\* of the order was free and is now bound to the path and last in the order,
\* its header holds the path, getSize() has grown by 1, getCapacity() is the
\* same, and every other binding and file is unchanged.
BoundToFirstSlot(path) ==
  /\ last'.rc = "SQLITE_OK"
  /\ ~IsBound(SlotAt(1))
  /\ mapPathToAccessHandle' = (path :> SlotAt(1)) @@ mapPathToAccessHandle
  /\ mapAccessHandleToName' =
       Append(Tail(mapAccessHandleToName), mapAccessHandleToName[1])
  /\ getSize' = getSize + 1
  /\ getCapacity' = getCapacity
  /\ \A p \in DOMAIN mapPathToAccessHandle :
       mapPathToAccessHandle'[p] = mapPathToAccessHandle[p]
  /\ HeaderPath(files', FileAt(1)) = path
  /\ DigestMatches(files', FileAt(1))
  /\ OtherFilesUnchanged(FileAt(1))

\* C3 as stated: every xOpen with the CREATE flag on a path that has no
\* binding, when a free slot exists, succeeds and binds the path to the first
\* slot of the order.
C3_AsStated ==
  [][last'.op = "xOpen" =>
     \A name \in OpenNames, fileId \in FileIds, flags \in FlagSets :
       \A path \in OpenPaths(name) :
         (/\ xOpen(name, fileId, flags)
          /\ "CREATE" \in flags
          /\ path \notin DOMAIN mapPathToAccessHandle
          /\ getSize < getCapacity)
         => BoundToFirstSlot(path)]_vars

\* C3, for the paths the header can hold: an xOpen with the CREATE flag on a
\* path that has no binding and whose UTF-8 encoding is shorter than the 512
\* bytes of the path field, when a free slot exists, succeeds and binds the
\* path to the first slot of the order, which was free; afterwards that slot
\* is last in the order, getSize() has grown by 1, getCapacity() is
\* unchanged and every earlier binding is unchanged.
C3_CreatingOpenBindsFirstSlot ==
  [][last'.op = "xOpen" =>
     \A name \in OpenNames, fileId \in FileIds, flags \in FlagSets :
       \A path \in OpenPaths(name) :
         (/\ xOpen(name, fileId, flags)
          /\ "CREATE" \in flags
          /\ path \notin DOMAIN mapPathToAccessHandle
          /\ getSize < getCapacity
          /\ Fits(path))
         => BoundToFirstSlot(path)]_vars

\* C3 witness: an xOpen has created a path in a pool that held a binding.
C3_Witness ==
  /\ last.op = "xOpen" /\ last.note \in {"created", "reused"}
  /\ getSize = 2 /\ getCapacity = 2

\* C4: an xOpen of a path that has no binding fails when CREATE is not set,
\* when getSize() equals getCapacity(), and when the path is too long for
\* the path field; an xOpen that fails returns SQLITE_CANTOPEN, leaves the
\* directory, the access handles and both maps as they were and registers
\* no file for the file id; no xOpen changes getCapacity().
C4_FailingOpenChangesNothing ==
  [][last'.op = "xOpen" =>
     \A name \in OpenNames, fileId \in FileIds, flags \in FlagSets :
       \A path \in OpenPaths(name) :
         xOpen(name, fileId, flags) =>
           /\ (/\ path \notin DOMAIN mapPathToAccessHandle
               /\ \/ "CREATE" \notin flags
                  \/ getSize = getCapacity
                  \/ ~Fits(path))
              => last'.rc = "SQLITE_CANTOPEN"
           /\ last'.rc = "SQLITE_CANTOPEN" =>
                /\ UNCHANGED <<files, openHandles, directoryHandle,
                               mapAccessHandleToName, mapPathToAccessHandle>>
                /\ fileId \notin DOMAIN mapIdToFile'
           /\ getCapacity' = getCapacity]_vars

\* C4 witness: an xOpen has failed with 'path too long' in a pool that holds
\* a binding and a free slot.
C4_Witness ==
  /\ last.op = "xOpen" /\ last.rc = "SQLITE_CANTOPEN"
  /\ last.note = "path too long"
  /\ getSize = 1 /\ getCapacity = 2

\* C5: xDelete of a bound path returns SQLITE_OK and removes exactly that
\* binding: xAccess of the path then reports 0, the header of the slot holds
\* the empty path with a matching digest, the file holds no payload, the slot
\* is first in the order, getSize() has dropped by 1, getCapacity() and all
\* other bindings are unchanged. xDelete of a path that has no binding
\* returns SQLITE_OK and changes nothing.
C5_DeleteFreesTheSlot ==
  [][\A name \in IONames :
       xDelete(name) =>
         /\ last'.rc = "SQLITE_OK"
         /\ IF getPath(name) \in DOMAIN mapPathToAccessHandle
              THEN Freed(getPath(name)) /\ xAccessResOut(name)' = 0
            ELSE UNCHANGED <<files, openHandles, directoryHandle,
                             mapAccessHandleToName, mapPathToAccessHandle>>
         /\ UNCHANGED mapIdToFile]_vars

\* C5 witness: an xDelete has freed a slot whose file held payload, and
\* another binding remains.
C5_Witness ==
  /\ last.op = "xDelete" /\ last.slot # NoSlot /\ last.note = "payload"
  /\ getSize = 1 /\ getCapacity = 2

\* An xOpen with the CREATE flag of a path that has no binding and that the
\* path field can hold.
CreatingOpen(name, fileId, flags, path) ==
  /\ xOpen(name, fileId, flags)
  /\ "CREATE" \in flags
  /\ path \notin DOMAIN mapPathToAccessHandle
  /\ Fits(path)

\* C6: exhaustion and reuse. An addCapacity(k) that returns adds k to
\* getCapacity() and leaves getSize(), so from capacity 0 the pool has
\* capacity k and size 0; a creating xOpen of a new path succeeds exactly
\* when getSize() < getCapacity(), and then adds 1 to getSize(), so k
\* creating opens are accepted and the next is rejected; an xDelete of a
\* bound path puts its slot first in the order and xAccess of the path
\* reports 0; the creating xOpen of a new path that follows such an xDelete
\* succeeds and is bound to the slot that the deleted path occupied, and
\* every path that xAccess reported 0 for, the deleted one among them, is
\* still reported 0 unless it is the path opened.
C6_ExhaustionAndReuse ==
  [][/\ last'.op = "addCapacity" =>
          \A k \in 0..MaxSlots :
            (addCapacity(k) /\ last'.rc = "number") =>
              /\ getCapacity' = getCapacity + k
              /\ getSize' = getSize
              /\ getCapacity = 0 => getSize' = 0
     /\ last'.op = "xOpen" =>
          \A name \in OpenNames, fileId \in FileIds, flags \in FlagSets :
            \A path \in OpenPaths(name) :
              CreatingOpen(name, fileId, flags, path) =>
                /\ last'.rc = "SQLITE_OK" <=> getSize < getCapacity
                /\ getSize' = (IF getSize < getCapacity THEN getSize + 1
                               ELSE getSize)
                /\ getCapacity' = getCapacity
                /\ (last.op = "xDelete" /\ last.slot # NoSlot) =>
                     /\ last'.rc = "SQLITE_OK"
                     /\ mapPathToAccessHandle'[path] = last.slot
                /\ \A other \in Names :
                     (xAccessResOut(other) = 0 /\ getPath(other) # path)
                     => xAccessResOut(other)' = 0
     /\ last'.op = "xDelete" =>
          \A name \in Names :
            (xDelete(name) /\ getPath(name) \in DOMAIN mapPathToAccessHandle)
            => /\ last'.slot = mapPathToAccessHandle[getPath(name)]
               /\ mapAccessHandleToName'[1][1] = last'.slot
               /\ xAccessResOut(name)' = 0
               /\ getSize' = getSize - 1
               /\ getCapacity' = getCapacity]_vars

\* C6 witness: in a pool that was full, a path has been deleted and the
\* creating xOpen of another path has taken the slot it freed.
C6_Witness ==
  /\ last.op = "xOpen" /\ last.note = "reused"
  /\ getSize = 2 /\ getCapacity = 2

\* C7: xClose of an open file id returns SQLITE_OK and forgets the file id.
\* Without DELETEONCLOSE the directory, the open access handles and both
\* maps are unchanged; with DELETEONCLOSE the pool is as xDelete of the path
\* of the file leaves it. xClose of a file id that is not open returns
\* SQLITE_OK and changes nothing.
C7_CloseForgetsOnlyTheFile ==
  [][\A fileId \in FileIds :
       xClose(fileId) =>
         /\ last'.rc = "SQLITE_OK"
         /\ IF fileId \notin DOMAIN mapIdToFile
              THEN UNCHANGED <<pool, mapIdToFile>>
            ELSE /\ mapIdToFile' = Without(mapIdToFile, fileId)
                 /\ IF /\ "DELETEONCLOSE" \in mapIdToFile[fileId].flags
                       /\ mapIdToFile[fileId].path
                            \in DOMAIN mapPathToAccessHandle
                      THEN Freed(mapIdToFile[fileId].path)
                    ELSE UNCHANGED pool]_vars

\* C7 witness: an xClose with DELETEONCLOSE has freed a slot whose file held
\* payload, and another binding remains.
C7_Witness ==
  /\ last.op = "xClose" /\ last.slot # NoSlot /\ last.note = "payload"
  /\ getSize = 1 /\ getCapacity = 2

\* C8: removeCapacity(n) on a pool of capacity C with B bindings removes the
\* first min(n, C - B) slots of the order and no other; each of them is free,
\* its access handle is closed and its file removed; no binding and no
\* other file changes, and getSize() <= getCapacity() afterwards.
C8_RemoveCapacityTakesFreeSlots ==
  [][\A n \in 0..MaxSlots :
       removeCapacity(n) =>
         \E k \in {Min(n, getCapacity - getSize)} :
           /\ getCapacity' = getCapacity - k
           /\ mapAccessHandleToName' =
                SubSeq(mapAccessHandleToName, k + 1, getCapacity)
           /\ \A i \in 1..k :
                /\ ~IsBound(SlotAt(i))
                /\ SlotAt(i) \in openHandles /\ SlotAt(i) \notin openHandles'
                /\ FileAt(i) \notin DOMAIN files'
           /\ files' = WithoutFirstFiles(k)
           /\ UNCHANGED <<mapPathToAccessHandle, mapIdToFile>>
           /\ getSize' <= getCapacity']_vars

\* C8 witness: a removeCapacity has removed a free slot and left a pool
\* whose only slot is bound.
C8_Witness ==
  /\ last.op = "removeCapacity" /\ last.rc = "number" /\ last.value = 1
  /\ getSize = 1 /\ getCapacity = 1

\* C9 as stated: every removeCapacity(n) resolves to the number of slots it
\* removed, getCapacity() before the call minus getCapacity() after it.
C9_AsStated ==
  [][\A n \in 0..MaxSlots :
       removeCapacity(n) =>
         /\ last'.rc = "number"
         /\ last'.value = getCapacity - getCapacity']_vars

\* Every path is bound after the step to the slot it was bound to before,
\* that slot is in the pool and its header holds the path.
BindingsKept ==
  /\ UNCHANGED mapPathToAccessHandle
  /\ \A p \in DOMAIN mapPathToAccessHandle :
       /\ MapHas(mapAccessHandleToName', mapPathToAccessHandle[p])
       /\ HeaderPath(files', MapGet(mapAccessHandleToName',
                                    mapPathToAccessHandle[p])) = p

\* C10 as stated: an addCapacity(n) that returns adds n to getCapacity() and
\* keeps every binding; the removeCapacity(n) that follows it takes n from
\* getCapacity(), which is then back at its value, keeps getSize() and every
\* binding, and every free slot that remains has an empty header path, a
\* matching digest and no payload.
C10_AsStated ==
  [][\A n \in 0..MaxSlots :
       /\ (addCapacity(n) /\ last'.rc = "number") =>
            /\ getCapacity' = getCapacity + n
            /\ getSize' = getSize
            /\ BindingsKept
       /\ (last = Returned("addCapacity", n, "") /\ removeCapacity(n)) =>
            /\ getCapacity' = getCapacity - n
            /\ getSize' = getSize
            /\ BindingsKept
            /\ \A i \in 1..getCapacity' :
                 ~IsBound(mapAccessHandleToName'[i][1]) =>
                   /\ HeaderPath(files', mapAccessHandleToName'[i][2]) = <<>>
                   /\ DigestMatches(files', mapAccessHandleToName'[i][2])
                   /\ files'[mapAccessHandleToName'[i][2]].size =
                        HEADER_OFFSET_DATA]_vars

\* The physical slot (the OPFS file) each path is bound to.
SlotOf(paths) == [p \in DOMAIN paths |-> paths[p][1]]

\* In the order `map` every slot no path of `paths` is bound to comes before
\* every slot some path is bound to.
FreeFirst(map, paths) ==
  \A i, j \in 1..Len(map) :
    (i < j /\ \E p \in DOMAIN paths : paths[p] = map[i][1])
    => \E p \in DOMAIN paths : paths[p] = map[j][1]

\* C11: restart round trip. From every state reached by completed calls, a
\* reset (which discards both maps and rebuilds them from the headers of the
\* same files) completes without an error and binds every path to the
\* physical slot it was bound to before, and no other path; getCapacity()
\* and getSize() are the same, and every free slot comes before every bound
\* slot in the order.
C11_RestartRoundTrip ==
  [][last'.op = "reset" =>
       (reset =>
          /\ last'.rc = "undefined"
          /\ SlotOf(mapPathToAccessHandle') = SlotOf(mapPathToAccessHandle)
          /\ getCapacity' = getCapacity
          /\ getSize' = getSize
          /\ FreeFirst(mapAccessHandleToName', mapPathToAccessHandle'))]_vars

\* C11 witness: a reset has rebuilt two bindings, one of them the path of an
\* open file.
C11_Witness ==
  /\ last.op = "reset" /\ last.rc = "undefined"
  /\ getSize = 2 /\ getCapacity = 2
  /\ \E id \in DOMAIN mapIdToFile :
       mapIdToFile[id].path \in DOMAIN mapPathToAccessHandle

\* ------------------------------------------------------------------------
\* SpecCorrupt: the calls of a session and its resets, with a directory in
\* which a bit of a stored digest can flip
\* ------------------------------------------------------------------------
\* The stored digest with the lowest bit of its second word flipped.
FlipBit(digest) == <<digest[1], <<digest[2][1], Xor16(digest[2][2], 1)>>>>

\* A bit flips in the digest field of the file `name`, whose header was
\* intact.
corrupt(name) ==
  /\ name \in DOMAIN files
  /\ files[name].digest = computeDigest(files[name].path)
  /\ files' = [files EXCEPT ![name].digest = FlipBit(@)]
  /\ last' = Call("corrupt", "none", NoSlot, "")
  /\ UNCHANGED <<openHandles, directoryHandle, mapAccessHandleToName,
                 mapPathToAccessHandle, mapIdToFile>>

Corrupt == \E name \in 1..MaxSlots : corrupt(name) /\ UNCHANGED suspended

NextCorrupt ==
  \/ OpenIO
  \/ Close
  \/ DeleteIO
  \/ WriteIO
  \/ AddCapacity
  \/ Reset
  \/ Corrupt

SpecCorrupt == InitIO /\ [][NextCorrupt]_vars

\* C12: corruption recovery. A reset over a directory in which the stored
\* digest of a file differs from the digest of its stored path field
\* completes without an error; afterwards the slot of that file is in the
\* pool, no path is bound to it, its header holds the empty path with the
\* matching digest, the file holds no payload, and free slots still come
\* before bound ones.
C12_CorruptSlotBecomesFree ==
  [][last'.op = "reset" =>
       (reset =>
          \A name \in DOMAIN files :
            ~DigestMatches(files, name) =>
              /\ last'.rc = "undefined"
              /\ \E i \in 1..getCapacity' : mapAccessHandleToName'[i][2] = name
              /\ \A p \in DOMAIN mapPathToAccessHandle' :
                   mapPathToAccessHandle'[p][1] # name
              /\ files'[name].path = <<>>
              /\ HeaderPath(files', name) = <<>>
              /\ DigestMatches(files', name)
              /\ files'[name].size = HEADER_OFFSET_DATA
              /\ FreeFirst(mapAccessHandleToName', mapPathToAccessHandle'))]_vars

\* C12 witness: a reset has repaired the header of a slot that an open file
\* was bound to, and has rebuilt the binding of another slot.
C12_Witness ==
  /\ last.op = "reset" /\ last.rc = "undefined" /\ last.note = "repaired"
  /\ getSize = 1 /\ getCapacity = 2
  /\ \E id \in DOMAIN mapIdToFile :
       mapIdToFile[id].path \notin DOMAIN mapPathToAccessHandle

\* ------------------------------------------------------------------------
\* SpecHeader: #setAssociatedPath and #getAssociatedPath applied to the
\* slots of a pool, for the paths of HeaderPaths
\* ------------------------------------------------------------------------
\* #setAssociatedPath(accessHandle, path) on a slot of the pool.
rebind(accessHandle, path) ==
  \E set \in {setAssociatedPath(files, mapAccessHandleToName, openHandles,
                                 accessHandle, path)} :
    /\ files' = set.files
    /\ mapAccessHandleToName' = set.map
    /\ last' = Call("setAssociatedPath",
                    IF set.threw = "" THEN "undefined" ELSE "throws",
                    accessHandle, set.threw)
    /\ UNCHANGED <<openHandles, directoryHandle, mapPathToAccessHandle,
                   mapIdToFile>>

\* #getAssociatedPath(accessHandle) on a slot of the pool.
readHeader(accessHandle) ==
  \E got \in {getAssociatedPath(files, mapAccessHandleToName, openHandles,
                                 accessHandle)} :
    /\ files' = got.files
    /\ mapAccessHandleToName' = got.map
    /\ last' = Call("getAssociatedPath",
                    IF got.threw = "" THEN "string" ELSE "throws", accessHandle,
                    IF got.path = <<>> THEN "" ELSE "path")
    /\ UNCHANGED <<openHandles, directoryHandle, mapPathToAccessHandle,
                   mapIdToFile>>

Rebind ==
  \E i \in 1..getCapacity, path \in HeaderPaths : rebind(SlotAt(i), path) /\ UNCHANGED suspended
ReadHeader == \E i \in 1..getCapacity : readHeader(SlotAt(i)) /\ UNCHANGED suspended

NextHeader ==
  \/ AddCapacity
  \/ Rebind
  \/ ReadHeader

SpecHeader == InitIO /\ [][NextHeader]_vars

\* The number of bytes of the UTF-8 encoding of each path of HeaderPaths.
Utf8Length ==
  [path \in HeaderPaths |-> Len(encodeIntoBytes(path, 4 * Len(path)))]

\* C13 as stated: for every path p, #setAssociatedPath(slot, p) either
\* throws 'path too long' and leaves the file as it was, or returns, and
\* then #getAssociatedPath of the slot returns exactly p and the stored
\* digest is the digest of the stored path field; it throws for every p
\* whose encoding with a terminating zero byte is longer than the path
\* field.
C13_AsStated ==
  [][last'.op = "setAssociatedPath" =>
       \A i \in 1..getCapacity, path \in HeaderPaths :
         rebind(SlotAt(i), path) =>
           /\ \/ /\ last'.rc = "throws" /\ last'.note = "path too long"
                 /\ files' = files
              \/ /\ last'.rc = "undefined"
                 /\ getAssociatedPath(files', mapAccessHandleToName',
                                      openHandles', SlotAt(i)).path = path
                 /\ DigestMatches(files', FileAt(i))
           /\ Utf8Length[path] + 1 > HEADER_MAX_PATH_SIZE
                => last'.rc = "throws"]_vars

\* ------------------------------------------------------------------------
\* SpecCrash: the calls of a session and its resets, no file deleted while
\* it is open, with a process that can stop inside #setAssociatedPath. The
\* writes since the last flush are then in the file in whole, in part or not
\* at all, and the next process starts from the constructor.
\* ------------------------------------------------------------------------
\* The digest field after a write of `new` over `old` that stopped: not
\* written, the first word written, or written.
TornDigests(old, new) == {old, <<new[1], old[2]>>, new}

\* The files a process that stops inside #setAssociatedPath(accessHandle,
\* path) can leave in place of `file`: each of the writes of lines 325 and
\* 326 and the truncate of line 331 has taken effect or not, the writes
\* possibly in part.
StoppedFiles(file, path, encodedPath) ==
  {[path |-> Torn(file.path, encodedPath, k), digest |-> digest, size |-> size] :
     k \in 0..Max(Len(file.path), Len(encodedPath)),
     digest \in TornDigests(file.digest, computeDigest(encodedPath)),
     size \in {Max(file.size, HEADER_OFFSET_DATA)}
              \cup (IF path = <<>> THEN {HEADER_OFFSET_DATA} ELSE {})}

\* The process stops inside #setAssociatedPath(accessHandle, path); the
\* state of the next process is that of the constructor.
crashInSetAssociatedPath(accessHandle, path) ==
  /\ accessHandle \in openHandles
  /\ \E encodedPath \in {EncodeInto(path, HEADER_MAX_PATH_SIZE)} :
       /\ ~PathTooLong(encodedPath)
       /\ \E stopped \in StoppedFiles(files[accessHandle[1]], path, encodedPath) :
            files' = [files EXCEPT ![accessHandle[1]] = stopped]
  /\ openHandles' = {}
  /\ directoryHandle' = FALSE
  /\ mapAccessHandleToName' = <<>>
  /\ mapPathToAccessHandle' = <<>>
  /\ mapIdToFile' = <<>>
  /\ last' = Call("crash", "none", accessHandle, "")

\* The process stops in the #setAssociatedPath of an xOpen that creates the
\* path of `name`.
crashInOpen(name) ==
  /\ getPath(name) \notin DOMAIN mapPathToAccessHandle
  /\ HasRoom
  /\ crashInSetAssociatedPath(FirstKey(mapAccessHandleToName), getPath(name))

\* The process stops in the #setAssociatedPath of an xDelete of `name`.
crashInDelete(name) ==
  /\ getPath(name) \in DOMAIN mapPathToAccessHandle
  /\ \A id \in DOMAIN mapIdToFile : mapIdToFile[id].path # getPath(name)
  /\ crashInSetAssociatedPath(mapPathToAccessHandle[getPath(name)], <<>>)

CrashInOpen == \E name \in IONames : crashInOpen(name) /\ UNCHANGED suspended
CrashInDelete == \E name \in IONames : crashInDelete(name) /\ UNCHANGED suspended

\* xDelete as SQLite calls it on a VFS whose xDeviceCharacteristics reports
\* SQLITE_IOCAP_UNDELETABLE_WHEN_OPEN: on a file that is not open.
DeleteClosed ==
  \E name \in IONames :
    /\ \A id \in DOMAIN mapIdToFile : mapIdToFile[id].path # getPath(name)
    /\ xDelete(name)
    /\ UNCHANGED suspended

NextCrash ==
  \/ OpenIO
  \/ Close
  \/ DeleteClosed
  \/ WriteIO
  \/ AddCapacity
  \/ RemoveCapacity
  \/ Reset
  \/ CrashInOpen
  \/ CrashInDelete

SpecCrash == InitIO /\ [][NextCrash]_vars

\* What #acquireAccessHandles builds from the directory fs, in which no
\* access handle is open, when the directory enumerates its files in the
\* order `order`.
Reconciliation(fs, order) ==
  acquireAccessHandlesLoop(order, 1,
    [files |-> fs, open |-> {}, paths |-> <<>>, tuplesWithPath |-> <<>>,
     tuplesWithoutPath |-> <<>>, threw |-> ""])

\* After the step, every reconciliation binds the physical slot `slot` to a
\* path of `allowed` or to none, and binds every other slot to the path that
\* was bound to it before the step, or to none if none was.
ClassifiedAsBefore(slot, allowed) ==
  \E fs \in {files'} :
   \A order \in Enumerations(fs) :
    \E st \in {Reconciliation(fs, order)} :
      /\ st.threw = ""
      /\ Len(st.tuplesWithoutPath) + Len(st.tuplesWithPath)
           = Cardinality(DOMAIN files)
      /\ \A p \in DOMAIN st.paths :
           IF st.paths[p][1] = slot THEN p \in allowed
           ELSE /\ p \in DOMAIN mapPathToAccessHandle
                /\ mapPathToAccessHandle[p][1] = st.paths[p][1]
      /\ \A p \in DOMAIN mapPathToAccessHandle :
           mapPathToAccessHandle[p][1] # slot =>
             /\ p \in DOMAIN st.paths
             /\ st.paths[p][1] = mapPathToAccessHandle[p][1]

\* C14: crash safety of a header rewrite. When the process stops inside the
\* #setAssociatedPath of a creating xOpen or of an xDelete, with each of the
\* path write, the digest write and the truncate in the file in whole, in
\* part or not at all, the next reconciliation, in every enumeration order,
\* completes and classifies the slot being rewritten as bound to the path it
\* had (none for the xOpen, the deleted path for the xDelete), as bound to
\* the new path (the opened path for the xOpen) or as free, and classifies
\* every other slot as it was classified before.
C14_StoppedRebindIsOldNewOrFree ==
  [][last'.op = "crash" =>
       \A name \in IONames :
         /\ crashInOpen(name) =>
              ClassifiedAsBefore(FirstKey(mapAccessHandleToName)[1],
                                 {getPath(name)})
         /\ crashInDelete(name) =>
              ClassifiedAsBefore(mapPathToAccessHandle[getPath(name)][1],
                                 {getPath(name)})]_vars

\* C14 witness: the reset after a stop inside a header rewrite has found a
\* header whose digest did not verify and has rebuilt the binding of the
\* other slot.
C14_Witness ==
  /\ last.op = "reset" /\ last.rc = "undefined" /\ last.note = "repaired"
  /\ getSize = 1 /\ getCapacity = 2
  /\ mapIdToFile = <<>>

\* C18 as stated: in every state reached through calls, stops inside a
\* header rewrite and resets, the file of every slot that no path is bound
\* to has exactly the size of the header, and the file of a slot that an
\* xOpen has just bound to a path it created holds no payload (xFileSize
\* reports 0).
C18_AsStated ==
  /\ \A i \in 1..getCapacity :
       ~IsBound(SlotAt(i)) => files[FileAt(i)].size = HEADER_OFFSET_DATA
  /\ (last.op = "xOpen" /\ last.note \in {"created", "reused"})
       => files[last.slot[1]].size - HEADER_OFFSET_DATA = 0

\* ------------------------------------------------------------------------
\* SpecFail: the calls of Spec, with an addCapacity whose directory rejects
\* the creation of a file
\* ------------------------------------------------------------------------
\* The awaits of the loop of addCapacity that can reject.
FailingAwaits == {"getFileHandle", "createSyncAccessHandle"}

\* addCapacity(n), awaited, when the await `at` of iteration k (from 1)
\* rejects: the k - 1 iterations before it have completed, the promise of
\* addCapacity rejects and line 230 is not reached.
addCapacityFails(n, k, at) ==
  /\ directoryHandle
  /\ k \in 1..n
  /\ \E st \in {addCapacityLoop(0, k - 1,
                   [files |-> files, map |-> mapAccessHandleToName,
                    open |-> openHandles, newEntries |-> <<>>])} :
       /\ files' = (IF at = "createSyncAccessHandle"
                      THEN (NewFileName(st.files) :> EmptyFile) @@ st.files
                    ELSE st.files)
       /\ openHandles' = st.open
       /\ mapAccessHandleToName' = st.map
       /\ last' = Call("addCapacity", "throws", NoSlot, at)
       /\ UNCHANGED <<directoryHandle, mapPathToAccessHandle, mapIdToFile>>

\* The directory holds at most MaxSlots files.
AddCapacityFails ==
  \E n \in 1..MaxSlots, k \in 1..MaxSlots, at \in FailingAwaits :
    /\ Cardinality(DOMAIN files) + k - 1
         + (IF at = "createSyncAccessHandle" THEN 1 ELSE 0) <= MaxSlots
    /\ addCapacityFails(n, k, at)
    /\ UNCHANGED suspended

NextFail ==
  \/ Open
  \/ Close
  \/ Delete
  \/ AddCapacity
  \/ AddCapacityFails
  \/ RemoveCapacity
  \/ Reset

SpecFail == Init /\ [][NextFail]_vars

\* C15 as stated: when addCapacity(n) fails while it creates slot k, k > 1,
\* getCapacity() has grown by k - 1, the k - 1 slots created before are the
\* first of the order and free, with an empty header, and every slot and
\* binding that existed is unchanged.
C15_AsStated ==
  [][last'.op = "addCapacity" =>
       \A n \in 1..MaxSlots, k \in 2..MaxSlots, at \in FailingAwaits :
         addCapacityFails(n, k, at) =>
           /\ getCapacity' = getCapacity + (k - 1)
           /\ \A i \in 1..(k - 1) :
                /\ mapAccessHandleToName'[i][2] \notin DOMAIN files
                /\ mapAccessHandleToName'[i][1] \in openHandles'
                /\ HeaderPath(files', mapAccessHandleToName'[i][2]) = <<>>
           /\ SubSeq(mapAccessHandleToName', k, getCapacity')
                = mapAccessHandleToName
           /\ UNCHANGED mapPathToAccessHandle
           /\ \A name \in DOMAIN files : files'[name] = files[name]]_vars

\* ------------------------------------------------------------------------
\* The order in which capacity is consumed (Spec)
\* ------------------------------------------------------------------------
\* The slots the step has added to the pool.
NewSlots == HandlesOf(mapAccessHandleToName') \ HandlesOf(mapAccessHandleToName)

\* C16 as stated: a creating xOpen binds the first slot of the order, and
\* after an addCapacity(n) on a pool that has free slots every slot that was
\* free before comes before every slot the call has added, so that creating
\* opens take the slots that were free before first.
C16_AsStated ==
  [][/\ last'.op = "xOpen" =>
          \A name \in OpenNames, fileId \in FileIds, flags \in FlagSets :
            \A path \in OpenPaths(name) :
              (CreatingOpen(name, fileId, flags, path) /\ HasRoom)
              => last'.slot = SlotAt(1)
     /\ last'.op = "addCapacity" =>
          \A n \in 1..MaxSlots :
            (addCapacity(n) /\ last'.rc = "number" /\ getSize < getCapacity)
            => \A i, j \in 1..getCapacity' :
                 (/\ mapAccessHandleToName'[i][1] \in NewSlots
                  /\ mapAccessHandleToName'[j][1] \notin NewSlots
                  /\ ~IsBound(mapAccessHandleToName'[j][1]))
                 => j < i]_vars

\* C16, as the code orders the pool: a creating xOpen binds the first slot of
\* the order and moves it to the end, and after an addCapacity(n) the n
\* slots the call has added are the first n of the order, followed by the
\* slots of the pool in the order they had, so that creating opens take the
\* n new slots before any slot that was free before.
C16_NewCapacityIsConsumedFirst ==
  [][/\ last'.op = "xOpen" =>
          \A name \in OpenNames, fileId \in FileIds, flags \in FlagSets :
            \A path \in OpenPaths(name) :
              (CreatingOpen(name, fileId, flags, path) /\ HasRoom)
              => /\ last'.slot = SlotAt(1)
                 /\ mapAccessHandleToName' =
                      Append(Tail(mapAccessHandleToName),
                             mapAccessHandleToName[1])
     /\ last'.op = "addCapacity" =>
          \A n \in 1..MaxSlots :
            (addCapacity(n) /\ last'.rc = "number")
            => /\ Cardinality(NewSlots) = n
               /\ \A i \in 1..n : mapAccessHandleToName'[i][1] \in NewSlots
               /\ SubSeq(mapAccessHandleToName', n + 1, getCapacity')
                    = mapAccessHandleToName
               /\ \A i \in 1..n :
                    ~\E p \in DOMAIN mapPathToAccessHandle' :
                       mapPathToAccessHandle'[p] = mapAccessHandleToName'[i][1]]_vars

\* C16 witness: an addCapacity(1) has added a slot to a pool whose only slot
\* was free.
C16_Witness ==
  /\ last.op = "addCapacity" /\ last.rc = "number" /\ last.value = 1
  /\ getCapacity = 2 /\ getSize = 0
  /\ directoryHandle

\* ------------------------------------------------------------------------
\* SpecFiles: xOpen, xClose and xDelete with two file ids on the names "/a"
\* and "é", in a pool that addCapacity has filled
\* ------------------------------------------------------------------------
TwoFileIds == {1, 2}

OpenFiles ==
  \E name \in IONames, fileId \in TwoFileIds, flags \in FlagSets :
    xOpen(name, fileId, flags) /\ UNCHANGED suspended
CloseFiles == \E fileId \in TwoFileIds : xClose(fileId) /\ UNCHANGED suspended

NextFiles ==
  \/ OpenFiles
  \/ CloseFiles
  \/ DeleteIO
  \/ AddCapacity

SpecFiles == InitIO /\ [][NextFiles]_vars

\* C17 as stated: in every state reached by xOpen, xClose and xDelete calls,
\* the access handle of every open file is the slot that the path of the
\* file is bound to, and two open files with different paths have different
\* slots.
C17_AsStated ==
  /\ \A id \in DOMAIN mapIdToFile :
       /\ mapIdToFile[id].path \in DOMAIN mapPathToAccessHandle
       /\ mapPathToAccessHandle[mapIdToFile[id].path]
            = mapIdToFile[id].accessHandle
  /\ \A id1, id2 \in DOMAIN mapIdToFile :
       mapIdToFile[id1].path # mapIdToFile[id2].path
       => mapIdToFile[id1].accessHandle # mapIdToFile[id2].accessHandle

\* ------------------------------------------------------------------------
\* SpecReset: reset() as the event loop runs it, one step from each await to
\* the next, with the synchronous calls xOpen and xClose between its steps
\* ------------------------------------------------------------------------
\* reset() from its call to the await of #releaseAccessHandles(): the
\* directory handle is set, every access handle of the Map is closed and both
\* Maps are cleared. The awaits before that change nothing.
resetBegin ==
  /\ suspended = NotSuspended
  /\ directoryHandle' = TRUE
  /\ openHandles' = openHandles \ HandlesOf(mapAccessHandleToName)
  /\ mapAccessHandleToName' = <<>>
  /\ mapPathToAccessHandle' = <<>>
  /\ suspended' = [op |-> "reset", remaining |-> DOMAIN files,
                   tuplesWithPath |-> <<>>, tuplesWithoutPath |-> <<>>,
                   repaired |-> FALSE]
  /\ last' = Call("reset", "pending", NoSlot, "")
  /\ UNCHANGED <<files, mapIdToFile>>

\* One iteration of the for await loop of #acquireAccessHandles, on the file
\* the directory enumerates next: it ends suspended at the next await, or
\* rejects the promise of reset().
resetStep ==
  /\ suspended.op = "reset"
  /\ \E name \in suspended.remaining :
       \E st \in {acquireAccessHandlesLoop(<<name>>, 1,
                   [files |-> files, open |-> openHandles,
                    paths |-> mapPathToAccessHandle,
                    tuplesWithPath |-> suspended.tuplesWithPath,
                    tuplesWithoutPath |-> suspended.tuplesWithoutPath,
                    threw |-> ""])} :
         /\ files' = st.files
         /\ openHandles' = st.open
         /\ mapPathToAccessHandle' = st.paths
         /\ IF st.threw # ""
              THEN /\ suspended' = NotSuspended
                   /\ last' = Call("reset", "throws", NoSlot, "")
            ELSE /\ suspended' =
                      [suspended EXCEPT
                         !.remaining = @ \ {name},
                         !.tuplesWithPath = st.tuplesWithPath,
                         !.tuplesWithoutPath = st.tuplesWithoutPath,
                         !.repaired = @ \/ st.files # files]
                 /\ UNCHANGED last
         /\ UNCHANGED <<directoryHandle, mapAccessHandleToName, mapIdToFile>>

\* The end of the enumeration: #mapAccessHandleToName is assigned and the
\* promise of reset() resolves.
resetEnd ==
  /\ suspended.op = "reset"
  /\ suspended.remaining = {}
  /\ mapAccessHandleToName' =
       Acquired(suspended.tuplesWithoutPath, suspended.tuplesWithPath)
  /\ suspended' = NotSuspended
  /\ last' = Call("reset", "undefined", NoSlot,
                  IF suspended.repaired THEN "repaired" ELSE "")
  /\ UNCHANGED <<files, openHandles, directoryHandle, mapPathToAccessHandle,
                 mapIdToFile>>

\* addCapacity, called when no call is suspended.
AddCapacityAwaited == suspended = NotSuspended /\ AddCapacity

NextReset ==
  \/ resetBegin
  \/ resetStep
  \/ resetEnd
  \/ OpenIO
  \/ Close
  \/ AddCapacityAwaited

SpecReset == Init /\ [][NextReset]_vars

\* C19 as stated: an xOpen that returns SQLITE_OK runs after a reset() has
\* been called and while no reset() is suspended in its enumeration of the
\* directory.
C19_AsStated ==
  [][(last'.op = "xOpen" /\ last'.rc = "SQLITE_OK") =>
       \A name \in IONames, fileId \in FileIds, flags \in FlagSets :
         xOpen(name, fileId, flags) =>
           /\ directoryHandle
           /\ suspended.op # "reset"]_vars

\* ------------------------------------------------------------------------
\* SpecRemove: removeCapacity(n) as the event loop runs it, one step from
\* each await to the next, with xOpen, xClose, xDelete and addCapacity
\* between its steps
\* ------------------------------------------------------------------------
\* The for-of loop of removeCapacity iterates the Map object that
\* #mapAccessHandleToName held when the loop began. suspended.entries are the
\* entries of that object the iterator has still to visit, and
\* suspended.same is whether #mapAccessHandleToName is still that object.

\* this.#mapAccessHandleToName.delete(h); this.#mapAccessHandleToName.set(h,
\* name): the entry moves to the end of the object, after the iterator.
MovedToEnd(s, map, h) ==
  IF s.op = "removeCapacity" /\ s.same /\ MapHas(map, h)
    THEN [s EXCEPT !.entries = Append(MapDelete(@, h), <<h, MapGet(map, h)>>)]
  ELSE s

\* this.#mapAccessHandleToName.delete(h); this.#mapAccessHandleToName = new
\* Map(...): the entry leaves the object, and the field holds another object.
DeletedAndReplaced(s, map, h) ==
  IF s.op = "removeCapacity" /\ s.same /\ MapHas(map, h)
    THEN [s EXCEPT !.entries = MapDelete(@, h), !.same = FALSE]
  ELSE s

\* this.#mapAccessHandleToName = new Map(...)
Replaced(s) ==
  IF s.op = "removeCapacity" THEN [s EXCEPT !.same = FALSE] ELSE s

\* The head of the loop with nRemoved slots removed, on the Map map and the
\* entries the iterator has still to visit: the loop ends, or the call
\* returns nRemoved, or it closes the next access handle and is suspended at
\* await accessHandle.close().
removeCapacityNext(n, nRemoved, map, entries, same) ==
  IF entries = <<>>
    THEN /\ suspended' = NotSuspended
         /\ last' = Call("removeCapacity", "undefined", NoSlot, "")
         /\ UNCHANGED openHandles
  ELSE IF removeCapacityDone(nRemoved, n, Len(map))
    THEN /\ suspended' = NotSuspended
         /\ last' = Returned("removeCapacity", nRemoved, "")
         /\ UNCHANGED openHandles
  ELSE /\ openHandles' = openHandles \ {entries[1][1]}
       /\ suspended' = [op |-> "removeCapacity", n |-> n,
                        nRemoved |-> nRemoved, pc |-> "close",
                        accessHandle |-> entries[1][1], name |-> entries[1][2],
                        entries |-> Tail(entries), same |-> same]
       /\ last' = Call("removeCapacity", "pending", entries[1][1], "")

\* removeCapacity(n) from its call to its first await.
removeCapacityBegin(n) ==
  /\ suspended = NotSuspended
  /\ removeCapacityNext(n, 0, mapAccessHandleToName, mapAccessHandleToName,
                        TRUE)
  /\ UNCHANGED <<files, directoryHandle, mapAccessHandleToName,
                 mapPathToAccessHandle, mapIdToFile>>

\* From await accessHandle.close() to await removeEntry(name): the file leaves
\* the directory, or removeEntry rejects with NotFoundError.
removeCapacityRemoveEntry ==
  /\ suspended.op = "removeCapacity"
  /\ suspended.pc = "close"
  /\ IF suspended.name \in DOMAIN files
       THEN /\ files' = Without(files, suspended.name)
            /\ suspended' = [suspended EXCEPT !.pc = "removeEntry"]
            /\ UNCHANGED last
     ELSE /\ suspended' = NotSuspended
          /\ last' = Call("removeCapacity", "throws", NoSlot, "")
          /\ UNCHANGED files
  /\ UNCHANGED <<openHandles, directoryHandle, mapAccessHandleToName,
                 mapPathToAccessHandle, mapIdToFile>>

\* From await removeEntry(name) on: the access handle is deleted from the Map
\* that the field holds now, nRemoved is incremented and the loop goes on
\* with the next entry of the object it iterates.
removeCapacityResume ==
  /\ suspended.op = "removeCapacity"
  /\ suspended.pc = "removeEntry"
  /\ mapAccessHandleToName' =
       MapDelete(mapAccessHandleToName, suspended.accessHandle)
  /\ removeCapacityNext(suspended.n, suspended.nRemoved + 1,
                        mapAccessHandleToName',
                        IF suspended.same
                          THEN MapDelete(suspended.entries, suspended.accessHandle)
                        ELSE suspended.entries,
                        suspended.same)
  /\ UNCHANGED <<files, directoryHandle, mapPathToAccessHandle, mapIdToFile>>

RemoveCapacityBegin == \E n \in 0..MaxSlots : removeCapacityBegin(n)

\* xOpen between the steps: a creating xOpen moves the slot it binds.
OpenAtAwait ==
  \E name \in IONames, fileId \in FileIds, flags \in FlagSets :
    /\ xOpen(name, fileId, flags)
    /\ suspended' =
         (IF last'.rc = "SQLITE_OK" /\ last'.note # "found"
            THEN MovedToEnd(suspended, mapAccessHandleToName, last'.slot)
          ELSE suspended)

\* xClose between the steps: with DELETEONCLOSE it frees the slot.
CloseAtAwait ==
  \E fileId \in FileIds :
    /\ xClose(fileId)
    /\ suspended' =
         (IF last'.slot # NoSlot
            THEN DeletedAndReplaced(suspended, mapAccessHandleToName, last'.slot)
          ELSE suspended)

\* xDelete of a file that is not open, between the steps.
DeleteAtAwait ==
  \E name \in IONames :
    /\ \A id \in DOMAIN mapIdToFile : mapIdToFile[id].path # getPath(name)
    /\ xDelete(name)
    /\ suspended' =
         (IF last'.slot # NoSlot
            THEN DeletedAndReplaced(suspended, mapAccessHandleToName, last'.slot)
          ELSE suspended)

\* addCapacity between the steps, run to completion.
AddCapacityAtAwait ==
  \E n \in 0..MaxSlots :
    /\ Cardinality(DOMAIN files) + n <= MaxSlots
    /\ addCapacity(n)
    /\ suspended' =
         (IF last'.rc = "number" THEN Replaced(suspended) ELSE suspended)

NextRemove ==
  \/ RemoveCapacityBegin
  \/ removeCapacityRemoveEntry
  \/ removeCapacityResume
  \/ OpenAtAwait
  \/ CloseAtAwait
  \/ DeleteAtAwait
  \/ AddCapacityAtAwait

SpecRemove == InitIO /\ [][NextRemove]_vars

\* C20 as stated: with xOpen, xClose, xDelete and addCapacity between the
\* steps of removeCapacity, no step closes the access handle or removes the
\* file of a slot that a path is bound to, and when no call is suspended
\* every path is bound to a slot of the pool and getSize() <= getCapacity().
C20_AsStated ==
  [][/\ \A h \in openHandles \ openHandles' : ~IsBound(h)
     /\ (suspended.op = "removeCapacity" /\ files' # files) =>
          ~IsBound(suspended.accessHandle)
     /\ suspended' = NotSuspended =>
          /\ \A p \in DOMAIN mapPathToAccessHandle' :
               MapHas(mapAccessHandleToName', mapPathToAccessHandle'[p])
          /\ getSize' <= getCapacity']_vars
====
